---------------------------- MODULE Spec2Model ----------------------------
(***************************************************************************)
(* Model of scrape_schedule.py: the line scanner of scrape_schedule(), the *)
(* room ordering of the renderers, _shorten_time() and the control flow of *)
(* the command-line entry point.                                           *)
(*                                                                         *)
(* Text is modelled by TLA+ strings, on which TLC evaluates Len, SubSeq    *)
(* and \o.  The module is ASCII, so the en dash U+2013 of the source is    *)
(* written EnDash (the character "~"); the ASCII hyphen stays "-".         *)
(* Python indices are 0-based: line number k of the program is lines[k+1]. *)
(***************************************************************************)
EXTENDS Integers, Sequences, FiniteSets, TLC

VARIABLES
    args,          \* the parsed command line: [hash, json, grid : BOOLEAN]
    content,       \* page.content(), as its sequence of raw text lines (empty
                   \* before the page is fetched)
    exc,           \* the exception in flight or caught (None when there is none)
    lines,         \* the stripped, non-empty lines the scanner reads
    rooms,         \* dict: room code -> [advisors, graders, schedule]
    keyOrder,      \* insertion order of the keys of rooms (a Python dict keeps it)
    current_room,  \* None or the code of the last room header examined
    i,             \* the cursor shared by the outer scan and the lookahead
    pc,            \* position of the run
    examined,      \* history: indices the outer scan classified
    consumed,      \* history: indices the presenter lookahead read
    stdout,        \* what the run printed, in order
    files,         \* the files written: file name -> what was written
    exitStatus,    \* -1 while running, then the status of the process
    time_str,      \* argument of a direct call of _shorten_time
    shortened      \* its result (None before the call)

vars == <<args, content, exc, lines, rooms, keyOrder, current_room, i, pc,
          examined, consumed, stdout, files, exitStatus,
          time_str, shortened>>

scanVars == <<lines, rooms, keyOrder, current_room, i, examined, consumed>>
outVars  == <<stdout, files, exitStatus>>
callVars == <<time_str, shortened>>

None == "<None>"

-----------------------------------------------------------------------------
(* Bounds of the model.                                                     *)

MaxLines == 4          \* length of the line sequence given to the scanner
MaxContent == 3        \* number of raw lines of a fetched page
MaxLabelLen == 4       \* length of a generated argument of _shorten_time

-----------------------------------------------------------------------------
(* str operations of Python, as the program uses them.                      *)

EnDash == "~"

\* sub in s
Contains(s, sub) ==
    \E k \in 1..(Len(s) - Len(sub) + 1) : SubSeq(s, k, k + Len(sub) - 1) = sub

\* s.find(sub) + 1 when sub occurs in s
Find(s, sub) ==
    CHOOSE k \in 1..(Len(s) - Len(sub) + 1) :
        /\ SubSeq(s, k, k + Len(sub) - 1) = sub
        /\ \A m \in 1..(k - 1) : SubSeq(s, m, m + Len(sub) - 1) # sub

\* s.split(sep): the parts between the non-overlapping occurrences, left to right
RECURSIVE Split(_, _)
Split(s, sep) ==
    IF ~Contains(s, sep)
    THEN <<s>>
    ELSE LET k == Find(s, sep)
         IN  <<SubSeq(s, 1, k - 1)>> \o Split(SubSeq(s, k + Len(sep), Len(s)), sep)

IsSpace(c) == c = " "

RECURSIVE LStrip(_)
LStrip(s) ==
    IF Len(s) > 0 /\ IsSpace(SubSeq(s, 1, 1)) THEN LStrip(SubSeq(s, 2, Len(s))) ELSE s

RECURSIVE RStrip(_)
RStrip(s) ==
    IF Len(s) > 0 /\ IsSpace(SubSeq(s, Len(s), Len(s)))
    THEN RStrip(SubSeq(s, 1, Len(s) - 1))
    ELSE s

\* s.strip()
Strip(s) == LStrip(RStrip(s))

\* truth value of a str or None
Truthy(v) == v # None /\ v # ""

BoundedSeq(S, n) == UNION {[1..k -> S] : k \in 0..n}

-----------------------------------------------------------------------------
(* The scanner of scrape_schedule().                                        *)

RoomHeaders ==
    {"001 - Sherrerd Hall", "003 - Sherrerd Hall", "101 - Sherrerd Hall",
     "107 - Sherrerd Hall", "110 - Sherrerd Hall", "123 - Sherrerd Hall",
     "125 - Sherrerd Hall"}

RoomCodes == {"001", "003", "101", "107", "110", "123", "125"}

AdvisorsMarker == "ORFE Advisors:"
GradersMarker == "PhD Candidate Graders:"
NoiseLine == "Link downloads document"
LinkSuffix == " Link"

IsRoomHeaderLoose(line) == Contains(line, " - Sherrerd Hall")

IsRoomHeader(line) == line \in RoomHeaders

RoomOf(line) == Split(line, " - ")[1]

HasTimeSep(line) ==
    Contains(line, "am " \o EnDash \o " ") \/ Contains(line, "pm " \o EnDash \o " ")

EmptyRecord == [advisors |-> "", graders |-> "", schedule |-> <<>>]

BranchTimeFirst(line, cur) ==
    IF IsRoomHeader(line) THEN "header"
    ELSE IF Truthy(cur) /\ HasTimeSep(line) THEN "time"
    ELSE IF Truthy(cur) /\ Contains(line, AdvisorsMarker) /\ Contains(line, GradersMarker)
         THEN "combined"
    ELSE IF Truthy(cur) /\ Contains(line, AdvisorsMarker) THEN "advisors"
    ELSE IF Truthy(cur) /\ Contains(line, GradersMarker) THEN "graders"
    ELSE "ignore"

BranchNoRoomGuard(line, cur) ==
    IF IsRoomHeader(line) THEN "header"
    ELSE IF Truthy(cur) /\ Contains(line, AdvisorsMarker) /\ Contains(line, GradersMarker)
         THEN "combined"
    ELSE IF Truthy(cur) /\ Contains(line, AdvisorsMarker) THEN "advisors"
    ELSE IF Truthy(cur) /\ Contains(line, GradersMarker) THEN "graders"
    ELSE IF HasTimeSep(line) THEN "time"
    ELSE "ignore"

\* the if/elif chain of the loop body: the branch taken for `line`
Branch(line, cur) ==
    IF IsRoomHeader(line) THEN "header"
    ELSE IF Truthy(cur) /\ Contains(line, AdvisorsMarker) /\ Contains(line, GradersMarker)
         THEN "combined"
    ELSE IF Truthy(cur) /\ Contains(line, AdvisorsMarker) THEN "advisors"
    ELSE IF Truthy(cur) /\ Contains(line, GradersMarker) THEN "graders"
    ELSE IF Truthy(cur) /\ HasTimeSep(line) THEN "time"
    ELSE "ignore"

LookaheadStopNoSkip(ls, j) == IF j < Len(ls) THEN j ELSE Len(ls)

\* the inner while loop entered with i = j: the value of i when it is left,
\* the index of the first usable line at or after j, or len(lines)
RECURSIVE LookaheadStop(_, _)
LookaheadStop(ls, j) ==
    IF j >= Len(ls) THEN Len(ls)
    ELSE IF Truthy(ls[j + 1]) /\ ls[j + 1] # NoiseLine THEN j
    ELSE LookaheadStop(ls, j + 1)

PresenterNoDefault(ls, j) ==
    LET p == LookaheadStop(ls, j)
    IN  IF p < Len(ls) THEN Split(ls[p + 1], LinkSuffix)[1] ELSE None

\* the presenter the inner loop entered with i = j leaves behind
Presenter(ls, j) ==
    LET p == LookaheadStop(ls, j)
    IN  IF p < Len(ls) THEN Split(ls[p + 1], LinkSuffix)[1] ELSE ""

ScheduleAppendFront(sched, entry) == <<entry>> \o sched

\* list.append
ScheduleAppend(sched, entry) == Append(sched, entry)

CursorAfterTimeOwnCursor(ls, k) == k + 1

\* the value of i after the iteration that handles the time-range line k
CursorAfterTime(ls, k) == LookaheadStop(ls, k + 1) + 1

\* rooms[key] = value
DictSet(d, key, value) ==
    [k \in (DOMAIN d) \cup {key} |-> IF k = key THEN value ELSE d[k]]

DictOrder(d, order, key) == IF key \in DOMAIN d THEN order ELSE Append(order, key)

Scanning == pc = "scan" /\ i < Len(lines)

Line == lines[i + 1]

\* rooms[current_room][...] = ... : KeyError when the key is absent
UpdateCurrent(rec) ==
    IF current_room \in DOMAIN rooms
    THEN /\ rooms' = [rooms EXCEPT ![current_room] = rec]
         /\ UNCHANGED <<exc, pc>>
    ELSE /\ exc' = "KeyError"
         /\ pc' = "except"
         /\ UNCHANGED rooms

NewRoomRecordKeepsOld(d, room) == IF room \in DOMAIN d THEN d[room] ELSE EmptyRecord

\* the record a room header assigns to its room
NewRoomRecord(d, room) == EmptyRecord

RoomHeaderLine ==
    /\ Scanning
    /\ Branch(Line, current_room) = "header"
    /\ current_room' = RoomOf(Line)
    /\ rooms' = DictSet(rooms, RoomOf(Line), NewRoomRecord(rooms, RoomOf(Line)))
    /\ keyOrder' = DictOrder(rooms, keyOrder, RoomOf(Line))
    /\ i' = i + 1
    /\ examined' = examined \cup {i}
    /\ UNCHANGED <<args, content, exc, lines, pc, consumed>>
    /\ UNCHANGED outVars /\ UNCHANGED callVars

FieldAssignAppends(old, new) == old \o new

\* rooms[current_room][field] = new: the value the field holds afterwards
FieldAssign(old, new) == new

CombinedLine ==
    /\ Scanning
    /\ Branch(Line, current_room) = "combined"
    /\ LET parts == Split(Line, GradersMarker)
       IN  UpdateCurrent([rooms[current_room] EXCEPT
                              !.advisors = FieldAssign(@, parts[1]),
                              !.graders = FieldAssign(@, GradersMarker \o parts[2])])
    /\ i' = i + 1
    /\ examined' = examined \cup {i}
    /\ UNCHANGED <<args, content, lines, keyOrder, current_room, consumed>>
    /\ UNCHANGED outVars /\ UNCHANGED callVars

AdvisorsLine ==
    /\ Scanning
    /\ Branch(Line, current_room) = "advisors"
    /\ UpdateCurrent([rooms[current_room] EXCEPT !.advisors = FieldAssign(@, Line)])
    /\ i' = i + 1
    /\ examined' = examined \cup {i}
    /\ UNCHANGED <<args, content, lines, keyOrder, current_room, consumed>>
    /\ UNCHANGED outVars /\ UNCHANGED callVars

GradersLine ==
    /\ Scanning
    /\ Branch(Line, current_room) = "graders"
    /\ UpdateCurrent([rooms[current_room] EXCEPT !.graders = FieldAssign(@, Line)])
    /\ i' = i + 1
    /\ examined' = examined \cup {i}
    /\ UNCHANGED <<args, content, lines, keyOrder, current_room, consumed>>
    /\ UNCHANGED outVars /\ UNCHANGED callVars

TimeRangeLine ==
    /\ Scanning
    /\ Branch(Line, current_room) = "time"
    /\ LET stop == LookaheadStop(lines, i + 1)
           entry == <<Line, Presenter(lines, i + 1)>>
       IN  /\ consumed' = consumed \cup {k \in (i + 1)..stop : k < Len(lines)}
           /\ IF current_room \in DOMAIN rooms
              THEN UpdateCurrent([rooms[current_room] EXCEPT
                       !.schedule = ScheduleAppend(rooms[current_room].schedule, entry)])
              ELSE UpdateCurrent(EmptyRecord)   \* rooms[current_room]: KeyError
    /\ i' = CursorAfterTime(lines, i)
    /\ examined' = examined \cup {i}
    /\ UNCHANGED <<args, content, lines, keyOrder, current_room>>
    /\ UNCHANGED outVars /\ UNCHANGED callVars

IgnoredLine ==
    /\ Scanning
    /\ Branch(Line, current_room) = "ignore"
    /\ i' = i + 1
    /\ examined' = examined \cup {i}
    /\ UNCHANGED <<args, content, exc, lines, rooms, keyOrder, current_room, pc, consumed>>
    /\ UNCHANGED outVars /\ UNCHANGED callVars

\* `while i < len(lines)` fails: return rooms
ScanReturn ==
    /\ pc = "scan"
    /\ i >= Len(lines)
    /\ pc' = "returned"
    /\ UNCHANGED <<args, content, exc>>
    /\ UNCHANGED scanVars /\ UNCHANGED outVars /\ UNCHANGED callVars

-----------------------------------------------------------------------------
(* The scanner on its own, over every line sequence within the bounds.      *)

Vocabulary ==
    {"101 - Sherrerd Hall",
     "001 - Sherrerd Hall",
     "200 - Sherrerd Hall",
     "ORFE Advisors: A PhD Candidate Graders: B",
     "ORFE Advisors: C",
     "PhD Candidate Graders: D",
     "9:00 am ~ 9:15 am",
     "1:00 pm ~ 1:15 pm",
     "Link downloads document",
     "Alice Lee Link downloads document"}

NoArgs == [hash |-> FALSE, json |-> FALSE, grid |-> FALSE]

ScanStart ==
    /\ rooms = <<>>
    /\ keyOrder = <<>>
    /\ current_room = None
    /\ i = 0
    /\ examined = {}
    /\ consumed = {}

NoOutput ==
    /\ stdout = <<>>
    /\ files = <<>>
    /\ exitStatus = -1

Init ==
    /\ args = NoArgs
    /\ content = <<>>
    /\ exc = None
    /\ lines \in BoundedSeq(Vocabulary, MaxLines)
    /\ ScanStart
    /\ pc = "scan"
    /\ NoOutput
    /\ time_str = None
    /\ shortened = None

Next ==
    \/ RoomHeaderLine
    \/ CombinedLine
    \/ AdvisorsLine
    \/ GradersLine
    \/ TimeRangeLine
    \/ IgnoredLine
    \/ ScanReturn

Spec == Init /\ [][Next]_vars

-----------------------------------------------------------------------------
(* The scanner over lines in which the markers and the time separators      *)
(* meet: both markers in either order, the graders marker twice, a marker   *)
(* and a time separator in one line.                                        *)

MarkerVocabulary ==
    {"101 - Sherrerd Hall",
     "001 - Sherrerd Hall",
     "ORFE Advisors: A PhD Candidate Graders: B",
     "ORFE Advisors: A PhD Candidate Graders: B PhD Candidate Graders: C",
     "PhD Candidate Graders: B ORFE Advisors: A",
     "ORFE Advisors: C 9:00 am ~ 9:15 am",
     "PhD Candidate Graders: D 1:00 pm ~ 1:15 pm",
     "9:00 am ~ 9:15 am",
     "Bob"}

InitMarkers ==
    /\ args = NoArgs
    /\ content = <<>>
    /\ exc = None
    /\ lines \in BoundedSeq(MarkerVocabulary, MaxLines)
    /\ ScanStart
    /\ pc = "scan"
    /\ NoOutput
    /\ time_str = None
    /\ shortened = None

SpecMarkers == InitMarkers /\ [][Next]_vars

-----------------------------------------------------------------------------
(* Room ordering: sorted() on str keys compares code points, character by   *)
(* character.  Room codes are made of digits.                               *)

CharOrd(c) ==
    CASE c = "0" -> 48 [] c = "1" -> 49 [] c = "2" -> 50 [] c = "3" -> 51
      [] c = "4" -> 52 [] c = "5" -> 53 [] c = "6" -> 54 [] c = "7" -> 55
      [] c = "8" -> 56 [] c = "9" -> 57

RECURSIVE StrLess(_, _)
StrLess(a, b) ==
    IF Len(b) = 0 THEN FALSE
    ELSE IF Len(a) = 0 THEN TRUE
    ELSE IF SubSeq(a, 1, 1) # SubSeq(b, 1, 1)
         THEN CharOrd(SubSeq(a, 1, 1)) < CharOrd(SubSeq(b, 1, 1))
    ELSE StrLess(SubSeq(a, 2, Len(a)), SubSeq(b, 2, Len(b)))

\* sorted(keys)
RECURSIVE Sorted(_)
Sorted(S) ==
    IF S = {} THEN <<>>
    ELSE LET m == CHOOSE x \in S : \A y \in S \ {x} : StrLess(x, y)
         IN  <<m>> \o Sorted(S \ {m})

\* json.dumps(d) lists the items in the order given: insertion order, or
\* sorted order with sort_keys=True
Serialize(d, order) == [k \in 1..Len(order) |-> <<order[k], d[order[k]]>>]

JsonOrder(d, order) == order

HashOrder(d, order) == Sorted(DOMAIN d)

PdfRoomOrderUnsorted(d, order) == order

\* for room, data in sorted(rooms.items())
PdfRoomOrder(d, order) == Sorted(DOMAIN d)

\* sorted(rooms.keys())
GridRoomOrder(d, order) == Sorted(DOMAIN d)

-----------------------------------------------------------------------------
(* _shorten_time                                                            *)

Separators == <<" " \o EnDash \o " ", " - ", EnDash, "-">>

RECURSIVE ShortenFrom(_, _)
ShortenFrom(s, k) ==
    IF k > Len(Separators) THEN Strip(s)
    ELSE IF Contains(s, Separators[k]) THEN Strip(Split(s, Separators[k])[1])
    ELSE ShortenFrom(s, k + 1)

ShortenTimeHyphenFirst(s) ==
    IF Contains(s, "-") THEN Strip(Split(s, "-")[1]) ELSE ShortenFrom(s, 1)

_shorten_time(s) == ShortenFrom(s, 1)

-----------------------------------------------------------------------------
(* The renderers, as far as room order and the grid's time column go.       *)

\* create_pdf: one section per room
PdfStory(d, order) ==
    LET rs == PdfRoomOrder(d, order)
    IN  [k \in 1..Len(rs) |-> [room |-> rs[k], data |-> d[rs[k]]]]

\* the first loop of create_grid_pdf: the distinct time labels, in order of
\* first appearance over the sorted rooms
RECURSIVE Dedup(_, _)
Dedup(ts, acc) ==
    IF ts = <<>> THEN acc
    ELSE IF \E k \in 1..Len(acc) : acc[k] = Head(ts) THEN Dedup(Tail(ts), acc)
    ELSE Dedup(Tail(ts), Append(acc, Head(ts)))

RECURSIVE TimesOf(_, _)
TimesOf(d, rs) ==
    IF rs = <<>> THEN <<>>
    ELSE [k \in 1..Len(d[Head(rs)].schedule) |-> d[Head(rs)].schedule[k][1]]
         \o TimesOf(d, Tail(rs))

AllTimes(d, order) == Dedup(TimesOf(d, GridRoomOrder(d, order)), <<>>)

\* create_grid_pdf divides by len(sorted_rooms)
GridDivides(d) == Cardinality(DOMAIN d) # 0

GridTable(d, order) ==
    [columns |-> GridRoomOrder(d, order),
     times |-> [k \in 1..Len(AllTimes(d, order)) |-> _shorten_time(AllTimes(d, order)[k])]]

-----------------------------------------------------------------------------
(* The run of the program: fetch, scan, output.                             *)

MaintenanceMarker == "Maintenance Mode"

MaintenanceMessage ==
    "The symposium website is currently in Maintenance Mode and the schedule is unavailable. Please try again later."

FetchFailure == "net::ERR_NAME_NOT_RESOLVED"

ContentHasExactLine(c, marker) == \E k \in 1..Len(c) : c[k] = marker

\* marker in content (the marker holds no newline)
ContentHas(c, marker) == \E k \in 1..Len(c) : Contains(c[k], marker)

\* [line.strip() for line in text.split('\n') if line.strip()]
RECURSIVE StripFilter(_)
StripFilter(c) ==
    IF c = <<>> THEN <<>>
    ELSE IF Truthy(Strip(Head(c))) THEN <<Strip(Head(c))>> \o StripFilter(Tail(c))
    ELSE StripFilter(Tail(c))

RawVocabulary ==
    {"  101 - Sherrerd Hall ",
     "001 - Sherrerd Hall",
     "9:00 am ~ 9:15 am",
     "1:00 pm ~ 1:15 pm",
     "ORFE Advisors: A PhD Candidate Graders: B",
     "ORFE Advisors: C",
     " PhD Candidate Graders: D",
     "   ",
     "The website is currently in Maintenance Mode."}

\* the pages the browser may return
Pages == BoundedSeq(RawVocabulary, MaxContent)

\* the browser calls raise
FetchFails ==
    /\ pc = "fetch"
    /\ exc' = FetchFailure
    /\ pc' = "except"
    /\ UNCHANGED <<args, content>>
    /\ UNCHANGED scanVars /\ UNCHANGED outVars /\ UNCHANGED callVars

\* the page is fetched and holds the marker: raise
FetchMaintenance ==
    /\ pc = "fetch"
    /\ \E c \in Pages :
          /\ ContentHas(c, MaintenanceMarker)
          /\ content' = c
    /\ exc' = MaintenanceMessage
    /\ pc' = "except"
    /\ UNCHANGED args
    /\ UNCHANGED scanVars /\ UNCHANGED outVars /\ UNCHANGED callVars

\* the page is fetched and is split into the lines to scan
FetchLines ==
    /\ pc = "fetch"
    /\ \E c \in Pages :
          /\ ~ContentHas(c, MaintenanceMarker)
          /\ content' = c
          /\ lines' = StripFilter(c)
    /\ pc' = "scan"
    /\ UNCHANGED <<args, exc, rooms, keyOrder, current_room, i, examined, consumed>>
    /\ UNCHANGED outVars /\ UNCHANGED callVars

Printed(kind, text, body) == [kind |-> kind, text |-> text, body |-> body]

\* except Exception as e: the maintenance branch
ExceptMaintenance ==
    /\ pc = "except"
    /\ Contains(exc, MaintenanceMarker)
    /\ stdout' = Append(stdout, Printed("error", "Error: " \o exc, <<>>))
    /\ exitStatus' = 1
    /\ pc' = "exited"
    /\ UNCHANGED <<args, content, exc, files>>
    /\ UNCHANGED scanVars /\ UNCHANGED callVars

\* except Exception as e: raise
ExceptOther ==
    /\ pc = "except"
    /\ ~Contains(exc, MaintenanceMarker)
    /\ exitStatus' = 1
    /\ pc' = "uncaught"
    /\ UNCHANGED <<args, content, exc, stdout, files>>
    /\ UNCHANGED scanVars /\ UNCHANGED callVars

MainHash ==
    /\ pc = "returned"
    /\ args.hash
    /\ stdout' = Append(stdout,
                   Printed("hash", "", Serialize(rooms, HashOrder(rooms, keyOrder))))
    /\ exitStatus' = 0
    /\ pc' = "exited"
    /\ UNCHANGED <<args, content, exc, files>>
    /\ UNCHANGED scanVars /\ UNCHANGED callVars

JsonName == "symposium_schedule.json"
PdfName == "symposium_schedule.pdf"
GridName == "symposium_schedule_grid.pdf"

\* create_pdf, then create_grid_pdf on --grid, starting from the files fs:
\* the tail shared by the last two branches
PdfAndGrid(fs) ==
    IF ~args.grid
    THEN /\ files' = DictSet(fs, PdfName, PdfStory(rooms, keyOrder))
         /\ exitStatus' = 0
         /\ pc' = "exited"
         /\ UNCHANGED exc
    ELSE IF GridDivides(rooms)
    THEN /\ files' = DictSet(DictSet(fs, PdfName, PdfStory(rooms, keyOrder)),
                             GridName, GridTable(rooms, keyOrder))
         /\ exitStatus' = 0
         /\ pc' = "exited"
         /\ UNCHANGED exc
    ELSE /\ files' = DictSet(fs, PdfName, PdfStory(rooms, keyOrder))
         /\ exc' = "ZeroDivisionError"
         /\ exitStatus' = 1
         /\ pc' = "uncaught"

MainJson ==
    /\ pc = "returned"
    /\ ~args.hash
    /\ args.json
    /\ stdout' = Append(stdout,
                   Printed("json", "", Serialize(rooms, JsonOrder(rooms, keyOrder))))
    /\ PdfAndGrid(DictSet(files, JsonName, Serialize(rooms, JsonOrder(rooms, keyOrder))))
    /\ UNCHANGED <<args, content>>
    /\ UNCHANGED scanVars /\ UNCHANGED callVars

MainPdf ==
    /\ pc = "returned"
    /\ ~args.hash
    /\ ~args.json
    /\ PdfAndGrid(files)
    /\ UNCHANGED <<args, content, stdout>>
    /\ UNCHANGED scanVars /\ UNCHANGED callVars

InitRun ==
    /\ args \in [hash : BOOLEAN, json : BOOLEAN, grid : BOOLEAN]
    /\ content = <<>>
    /\ exc = None
    /\ lines = <<>>
    /\ ScanStart
    /\ pc = "fetch"
    /\ NoOutput
    /\ time_str = None
    /\ shortened = None

NextRun ==
    \/ FetchFails
    \/ FetchMaintenance
    \/ FetchLines
    \/ RoomHeaderLine
    \/ CombinedLine
    \/ AdvisorsLine
    \/ GradersLine
    \/ TimeRangeLine
    \/ IgnoredLine
    \/ ScanReturn
    \/ ExceptMaintenance
    \/ ExceptOther
    \/ MainHash
    \/ MainJson
    \/ MainPdf

SpecRun == InitRun /\ [][NextRun]_vars

-----------------------------------------------------------------------------
(* _shorten_time called on its own, over every label within the bounds.     *)

LabelAlphabet == {"9", " ", EnDash, "-"}

RECURSIVE StringsUpTo(_)
StringsUpTo(n) ==
    IF n = 0 THEN {""}
    ELSE LET S == StringsUpTo(n - 1)
         IN  S \cup {s \o c : s \in S, c \in LabelAlphabet}

TestLabels ==
    {"9:00 am ~ 9:15 am", "10:15 am ~ 10:45 am", "1:00 pm ~ 1:15 pm",
     "Lunch in Atrium", "10:00 am"}

Labels == StringsUpTo(MaxLabelLen) \cup TestLabels

CallShortenTime ==
    /\ pc = "call"
    /\ shortened' = _shorten_time(time_str)
    /\ pc' = "called"
    /\ UNCHANGED <<args, content, exc, time_str>>
    /\ UNCHANGED scanVars /\ UNCHANGED outVars

InitShorten ==
    /\ args = NoArgs
    /\ content = <<>>
    /\ exc = None
    /\ lines = <<>>
    /\ ScanStart
    /\ pc = "call"
    /\ NoOutput
    /\ time_str \in Labels
    /\ shortened = None

NextShorten == CallShortenTime

\* both uses of _shorten_time: the direct calls and the grid's time column

InitTimes == InitShorten \/ InitRun

NextTimes == NextShorten \/ NextRun

SpecTimes == InitTimes /\ [][NextTimes]_vars

-----------------------------------------------------------------------------
(* Vocabulary of the properties.                                            *)

\* a line the scan dispatches to its time-range branch once a room is
\* current: it is no room header, holds neither marker and holds "am - " or
\* "pm - " (with the en dash)
IsTimeRangeLine(line) ==
    /\ line \notin RoomHeaders
    /\ ~Contains(line, AdvisorsMarker)
    /\ ~Contains(line, GradersMarker)
    /\ HasTimeSep(line)

\* the outer scan is about to handle a time-range line for a current room
AtTimeRange ==
    /\ pc = "scan"
    /\ i < Len(lines)
    /\ current_room # None
    /\ IsTimeRangeLine(lines[i + 1])

\* P is the part of L before the first " Link", all of L when there is none
BeforeFirstLink(L, P) ==
    LET at(q) == SubSeq(L, q, q + 4) = " Link"
        starts == 1..(Len(L) - 4)
    IN  \/ (\A q \in starts : ~at(q)) /\ P = L
        \/ \E q \in starts :
              /\ at(q)
              /\ \A m \in 1..(q - 1) : ~at(m)
              /\ P = SubSeq(L, 1, q - 1)

LastEntry(r) == rooms[r].schedule[Len(rooms[r].schedule)]

\* C1: while current_room is None the mapping stays empty and no error is
\* raised, whatever lines are examined; a line sequence without a recognized
\* room header is parsed to the empty mapping.
C1_NoRoomNoEntry ==
    /\ current_room = None => (DOMAIN rooms = {} /\ keyOrder = <<>> /\ exc = None)
    /\ (\A k \in 1..Len(lines) : lines[k] \notin RoomHeaders)
          => (current_room = None /\ DOMAIN rooms = {} /\ exc = None)

C1_Witness ==
    /\ pc = "returned"
    /\ current_room = None
    /\ DOMAIN rooms = {}
    /\ \E k \in examined : HasTimeSep(lines[k + 1])
    /\ \E k \in examined : Contains(lines[k + 1], AdvisorsMarker)
    /\ \E k \in examined : Contains(lines[k + 1], GradersMarker)

\* C2: every key of the mapping is one of the seven room codes, and its
\* exact header line "<code> - Sherrerd Hall" is one of the input lines.
C2_KeysAreRecognizedRooms ==
    /\ DOMAIN rooms \subseteq RoomCodes
    /\ \A r \in DOMAIN rooms :
          \E k \in 1..Len(lines) : lines[k] = r \o " - Sherrerd Hall"

C2_Witness ==
    /\ pc = "returned"
    /\ DOMAIN rooms = {"001", "101"}
    /\ \E k \in examined : lines[k + 1] = "200 - Sherrerd Hall"

\* C3: the step that handles a time-range line followed by n >= 0 noise
\* lines and then a line L appends exactly one entry to the current room,
\* whose presenter is the part of L before the first " Link"; the noise
\* line is never the presenter.
C3_PresenterAfterNoise ==
    [][AtTimeRange =>
          \A n \in 0..Len(lines) :
             ( /\ i + n + 2 <= Len(lines)
               /\ \A m \in 1..n : lines[i + 1 + m] = NoiseLine
               /\ lines[i + n + 2] # NoiseLine )
             => /\ current_room \in DOMAIN rooms'
                /\ Len(rooms'[current_room].schedule)
                      = Len(rooms[current_room].schedule) + 1
                /\ LET e == rooms'[current_room].schedule[
                                Len(rooms'[current_room].schedule)]
                   IN  /\ e[1] = lines[i + 1]
                       /\ BeforeFirstLink(lines[i + n + 2], e[2])
                       /\ e[2] # NoiseLine
    ]_vars

C3_Witness ==
    \E k \in examined :
       /\ k + 3 <= Len(lines)
       /\ IsTimeRangeLine(lines[k + 1])
       /\ lines[k + 2] = NoiseLine
       /\ lines[k + 3] = "Alice Lee Link downloads document"
       /\ {k + 1, k + 2} \subseteq consumed
       /\ current_room \in DOMAIN rooms
       /\ rooms[current_room].schedule = <<<<lines[k + 1], "Alice Lee">>>>

\* C4: the step that handles a time-range line followed by nothing but
\* noise lines up to the end of the input appends the entry (time_label, "")
\* to the current room, raises nothing and leaves the cursor past the end.
C4_EmptyPresenterAtEnd ==
    [][(AtTimeRange /\ \A m \in (i + 2)..Len(lines) : lines[m] = NoiseLine) =>
          /\ current_room \in DOMAIN rooms'
          /\ rooms'[current_room].schedule
                = Append(rooms[current_room].schedule, <<lines[i + 1], "">>)
          /\ exc' = None
          /\ pc' = "scan"
          /\ i' >= Len(lines)
    ]_vars

C4_Witness ==
    /\ pc = "returned"
    /\ exc = None
    /\ Len(lines) >= 3
    /\ lines[Len(lines)] = NoiseLine
    /\ IsTimeRangeLine(lines[Len(lines) - 1])
    /\ Len(lines) - 2 \in examined
    /\ Len(lines) - 1 \in consumed
    /\ current_room \in DOMAIN rooms
    /\ LastEntry(current_room) = <<lines[Len(lines) - 1], "">>

\* the room a line examined at index k belongs to: the code of the last
\* room header examined before it
HeadersBefore(k) == {h \in examined : h < k /\ lines[h + 1] \in RoomHeaders}

Max(S) == CHOOSE x \in S : \A y \in S : y <= x

Min(S) == CHOOSE x \in S : \A y \in S : x <= y

RoomAt(k) == SubSeq(lines[Max(HeadersBefore(k)) + 1], 1, 3)

\* the time-range lines handled for room r since its last header
TimeLinesOf(r) ==
    {k \in examined :
        /\ IsTimeRangeLine(lines[k + 1])
        /\ HeadersBefore(k) # {}
        /\ RoomAt(k) = r
        /\ \A h \in examined : lines[h + 1] = r \o " - Sherrerd Hall" => h < k}

RECURSIVE Ascending(_)
Ascending(S) == IF S = {} THEN <<>> ELSE <<Min(S)>> \o Ascending(S \ {Min(S)})

C5_Order ==
    \A r \in DOMAIN rooms :
       LET ks == Ascending(TimeLinesOf(r))
       IN  /\ Len(rooms[r].schedule) = Len(ks)
           /\ \A n \in 1..Len(ks) : rooms[r].schedule[n][1] = lines[ks[n] + 1]

C5_Frame ==
    AtTimeRange =>
       /\ DOMAIN rooms' = DOMAIN rooms
       /\ current_room \in DOMAIN rooms
       /\ Len(rooms'[current_room].schedule) = Len(rooms[current_room].schedule) + 1
       /\ SubSeq(rooms'[current_room].schedule, 1, Len(rooms[current_room].schedule))
             = rooms[current_room].schedule
       /\ rooms'[current_room].schedule[Len(rooms'[current_room].schedule)][1]
             = lines[i + 1]
       /\ rooms'[current_room].advisors = rooms[current_room].advisors
       /\ rooms'[current_room].graders = rooms[current_room].graders
       /\ \A r \in DOMAIN rooms : r # current_room => rooms'[r] = rooms[r]
       /\ current_room' = current_room

\* C5: the step that handles a time-range line appends one entry at the end
\* of the current room's schedule and changes nothing else of the mapping
\* (no other room, not the current room's advisors or graders); so a room's
\* entries are in the order of their time-range lines in the input.
C5_AppendToCurrentRoomOnly == [][C5_Frame]_vars /\ []C5_Order

C5_Witness ==
    /\ pc = "returned"
    /\ DOMAIN rooms = {"001", "101"}
    /\ current_room = "101"
    /\ rooms["001"] = EmptyRecord
    /\ rooms["101"].advisors # ""
    /\ rooms["101"].graders # ""
    /\ Len(rooms["101"].schedule) = 1

\* the index at which the lookahead of the time-range line k stops
FirstUsableAfter(k) ==
    LET U == {j \in (k + 1)..(Len(lines) - 1) : lines[j + 1] # NoiseLine}
    IN  IF U = {} THEN Len(lines) ELSE Min(U)

C10_Partition ==
    /\ examined \cap consumed = {}
    /\ examined \cup consumed = {k \in 0..(Len(lines) - 1) : k < i}

C10_Step ==
    /\ i' >= i
    /\ examined' # examined => (i' > i /\ examined' = examined \cup {i})
    /\ AtTimeRange =>
          /\ i' = FirstUsableAfter(i) + 1
          /\ consumed' = consumed \cup ((i + 1)..(i' - 1) \cap 0..(Len(lines) - 1))

\* C10: one strictly increasing cursor serves the outer scan and the
\* lookahead: every line below the cursor was either classified by the outer
\* scan or read by a lookahead, never both, and after a time-range line the
\* outer scan resumes at the line after the presenter line.
C10_SharedCursor == [][C10_Step]_vars /\ []C10_Partition

C10_Witness ==
    /\ pc = "returned"
    /\ \E k \in consumed :
          /\ lines[k + 1] \in RoomHeaders
          /\ SubSeq(lines[k + 1], 1, 3) \notin DOMAIN rooms
    /\ \E k \in examined : k > 1 /\ k - 1 \in consumed

-----------------------------------------------------------------------------
(* Properties of the outputs of a run.                                      *)

\* the lexicographic order of the seven room codes, written out
CodeRank(r) ==
    CASE r = "001" -> 1 [] r = "003" -> 2 [] r = "101" -> 3 [] r = "107" -> 4
      [] r = "110" -> 5 [] r = "123" -> 6 [] r = "125" -> 7

IsLexOrdered(rs) ==
    \A a, b \in 1..Len(rs) : a < b => CodeRank(rs[a]) < CodeRank(rs[b])

Covers(rs) == {rs[k] : k \in 1..Len(rs)} = DOMAIN rooms

KeysOf(body) == [k \in 1..Len(body) |-> body[k][1]]

Written(name) == name \in DOMAIN files

PdfRooms == [k \in 1..Len(files[PdfName]) |-> files[PdfName][k].room]

\* the index at which the header of room r was first examined
FirstHeader(r) == Min({h \in examined : lines[h + 1] = r \o " - Sherrerd Hall"})

\* the keys of rooms in the order their headers were first examined
RECURSIVE ByFirstHeader(_)
ByFirstHeader(S) ==
    IF S = {} THEN <<>>
    ELSE LET r == CHOOSE x \in S : \A y \in S : FirstHeader(x) <= FirstHeader(y)
         IN  <<r>> \o ByFirstHeader(S \ {r})

SortedOutputs ==
    /\ Written(PdfName) => (IsLexOrdered(PdfRooms) /\ Covers(PdfRooms))
    /\ Written(GridName) =>
          (IsLexOrdered(files[GridName].columns) /\ Covers(files[GridName].columns))
    /\ \A k \in 1..Len(stdout) :
          stdout[k].kind = "hash"
             => (IsLexOrdered(KeysOf(stdout[k].body)) /\ Covers(KeysOf(stdout[k].body)))

\* C6 as stated: the rooms of every output, the JSON file and the JSON on
\* standard output included, are in lexicographic order of room code.
C6_AllOutputsLexicographic ==
    /\ SortedOutputs
    /\ Written(JsonName) => IsLexOrdered(KeysOf(files[JsonName]))
    /\ \A k \in 1..Len(stdout) :
          stdout[k].kind = "json" => IsLexOrdered(KeysOf(stdout[k].body))

\* C6 amended: the rooms of the single-column PDF, of the grid PDF and of
\* the key-sorted serialization that is hashed are in lexicographic order of
\* room code whatever the order of the headers; the JSON file and the JSON
\* on standard output list the rooms in the order their headers were first
\* examined.
C6_SortedExceptJson ==
    /\ SortedOutputs
    /\ Written(JsonName) => KeysOf(files[JsonName]) = ByFirstHeader(DOMAIN rooms)
    /\ \A k \in 1..Len(stdout) :
          stdout[k].kind = "json" => KeysOf(stdout[k].body) = ByFirstHeader(DOMAIN rooms)

C6_Witness ==
    /\ pc = "exited"
    /\ args.json /\ args.grid
    /\ DOMAIN files = {JsonName, PdfName, GridName}
    /\ KeysOf(files[JsonName]) = <<"101", "001">>
    /\ PdfRooms = <<"001", "101">>
    /\ files[GridName].columns = <<"001", "101">>

HasMarker(c) ==
    \E k \in 1..Len(c) : \E q \in 1..Len(c[k]) :
        q + 15 <= Len(c[k]) /\ SubSeq(c[k], q, q + 15) = "Maintenance Mode"

InMaintenance == HasMarker(content)

NoResults ==
    /\ DOMAIN files = {}
    /\ \A k \in 1..Len(stdout) : stdout[k].kind = "error"

\* C7: when the fetched content holds "Maintenance Mode" the fetch raises an
\* error whose message names Maintenance Mode and says the schedule is
\* unavailable, no line is scanned, the run prints the error, ends with
\* status 1 and produces no hash, JSON or PDF; every other run that ends
\* without an uncaught exception ends with status 0.
C7_MaintenanceExit ==
    /\ InMaintenance =>
          /\ Contains(exc, "Maintenance Mode")
          /\ Contains(exc, "unavailable")
          /\ lines = <<>> /\ examined = {} /\ consumed = {} /\ DOMAIN rooms = {}
          /\ pc \in {"except", "exited"}
          /\ NoResults
          /\ pc = "exited" =>
                /\ exitStatus = 1
                /\ Len(stdout) = 1
                /\ Contains(stdout[1].text, "Maintenance Mode")
    /\ (pc = "exited" /\ ~InMaintenance) => exitStatus = 0

C7_Witness ==
    /\ pc = "exited"
    /\ exitStatus = 1
    /\ InMaintenance
    /\ \E k \in 1..Len(content) : Strip(content[k]) \in RoomHeaders
    /\ stdout = <<Printed("error", "Error: " \o MaintenanceMessage, <<>>)>>

\* C8 as stated: a run with --json builds no PDF document, and a run with
\* --hash writes no file and prints nothing but the digest.
C8_JsonOnlyHashOnly ==
    /\ args.json => (~Written(PdfName) /\ ~Written(GridName))
    /\ args.hash =>
          /\ DOMAIN files = {}
          /\ \A k \in 1..Len(stdout) : stdout[k].kind \in {"hash", "error"}

-----------------------------------------------------------------------------
(* Properties of _shorten_time.                                             *)

\* y is x without its leading and trailing spaces
IsTrimOf(x, y) ==
    \E a \in 1..(Len(x) + 1) : \E b \in 0..Len(x) :
        /\ y = SubSeq(x, a, b)
        /\ \A k \in 1..(a - 1) : SubSeq(x, k, k) = " "
        /\ \A k \in (b + 1)..Len(x) : SubSeq(x, k, k) = " "
        /\ a <= b => (SubSeq(x, a, a) # " " /\ SubSeq(x, b, b) # " ")
        /\ a > b => (a = b + 1 /\ \A k \in 1..Len(x) : SubSeq(x, k, k) = " ")

Occurs(t, sep) ==
    \E q \in 1..(Len(t) - Len(sep) + 1) : SubSeq(t, q, q + Len(sep) - 1) = sep

\* p is the part of t before the first occurrence of sep
IsPartBefore(t, sep, p) ==
    \E q \in 1..(Len(t) - Len(sep) + 1) :
        /\ SubSeq(t, q, q + Len(sep) - 1) = sep
        /\ \A m \in 1..(q - 1) : SubSeq(t, m, m + Len(sep) - 1) # sep
        /\ p = SubSeq(t, 1, q - 1)

SepOrder == <<" ~ ", " - ", "~", "-">>

\* sep number n is the first of the fixed order that t holds
FirstSep(t, n) == Occurs(t, SepOrder[n]) /\ \A m \in 1..(n - 1) : ~Occurs(t, SepOrder[m])

Called == pc = "called"

\* a cell of the grid's time column is the start of one of the time labels
IsStartOfALabel(cell) ==
    \E r \in DOMAIN rooms : \E k \in 1..Len(rooms[r].schedule) :
        LET t == rooms[r].schedule[k][1]
        IN  /\ Len(t) >= Len(cell) + 3
            /\ SubSeq(t, 1, Len(cell)) = cell
            /\ SubSeq(t, Len(cell) + 1, Len(cell) + 3) = " ~ "
            /\ ~Occurs(cell, "~")

GridShowsStartsOnly ==
    Written(GridName) =>
       \A k \in 1..Len(files[GridName].times) : IsStartOfALabel(files[GridName].times[k])

\* C9 as stated: the result is the part of the label before the first
\* occurrence of the first separator it holds, as it stands; a trimmed label
\* holding no separator is returned unchanged.
C9_PartBeforeSeparator ==
    /\ Called =>
          /\ \A n \in 1..4 : FirstSep(time_str, n) => IsPartBefore(time_str, SepOrder[n], shortened)
          /\ ((\A n \in 1..4 : ~Occurs(time_str, SepOrder[n])) /\ IsTrimOf(time_str, time_str))
                => shortened = time_str
    /\ GridShowsStartsOnly

\* C9 amended: the result is the part of the label before the first
\* occurrence of the first separator it holds, in the order " ~ ", " - ",
\* "~", "-", with its leading and trailing whitespace removed; a label
\* holding no separator is returned with its leading and trailing whitespace
\* removed, so unchanged when it is trimmed.  The grid's time column shows
\* the start of each range and never its end.
C9_TrimmedPartBeforeSeparator ==
    /\ Called =>
          /\ \A n \in 1..4 :
                FirstSep(time_str, n) =>
                   \E p \in {SubSeq(time_str, 1, q) : q \in 0..Len(time_str)} :
                       IsPartBefore(time_str, SepOrder[n], p) /\ IsTrimOf(p, shortened)
          /\ (\A n \in 1..4 : ~Occurs(time_str, SepOrder[n])) => IsTrimOf(time_str, shortened)
          /\ IsTrimOf(time_str, time_str) /\ (\A n \in 1..4 : ~Occurs(time_str, SepOrder[n]))
                => shortened = time_str
          /\ time_str = "9:00 am ~ 9:15 am" => shortened = "9:00 am"
    /\ GridShowsStartsOnly

C9_Witness ==
    /\ Called
    /\ time_str = "9 ~9"
    /\ shortened = "9"

-----------------------------------------------------------------------------
(* Properties of the room header and of the advisors and graders fields.    *)

\* the outer scan is about to examine a room header line
AtRoomHeader ==
    /\ pc = "scan"
    /\ i < Len(lines)
    /\ lines[i + 1] \in RoomHeaders

C11_Step ==
    AtRoomHeader =>
       LET code == SubSeq(lines[i + 1], 1, 3)
       IN  /\ current_room' = code
           /\ DOMAIN rooms' = DOMAIN rooms \cup {code}
           /\ rooms'[code].advisors = ""
           /\ rooms'[code].graders = ""
           /\ rooms'[code].schedule = <<>>
           /\ \A r \in DOMAIN rooms : r # code => rooms'[r] = rooms[r]

\* C11: every room header examined by the outer scan makes its code the
\* current room and gives that room an empty record (advisors "", graders
\* "", no schedule entry), also when the room already has a record, whose
\* contents are then lost; the records of the other rooms stay as they are.
C11_HeaderResetsRoom == [][C11_Step]_vars

C11_Witness ==
    /\ pc = "returned"
    /\ DOMAIN rooms = {"001", "101"}
    /\ rooms["101"] = EmptyRecord
    /\ \E h1, k, h2 \in examined :
          /\ h1 < k /\ k < h2
          /\ lines[h1 + 1] = "101 - Sherrerd Hall"
          /\ lines[h2 + 1] = "101 - Sherrerd Hall"
          /\ Contains(lines[k + 1], AdvisorsMarker)

\* the outer scan is about to examine, with a room current, a line that
\* holds both the advisors marker and the graders marker
AtCombinedLine ==
    /\ pc = "scan"
    /\ i < Len(lines)
    /\ current_room # None
    /\ lines[i + 1] \notin RoomHeaders
    /\ Contains(lines[i + 1], AdvisorsMarker)
    /\ Contains(lines[i + 1], GradersMarker)

C12_Step ==
    AtCombinedLine =>
       LET line == lines[i + 1]
           cut  == Find(line, GradersMarker)
           rec  == rooms'[current_room]
       IN  /\ rec.advisors = SubSeq(line, 1, cut - 1)
           /\ Contains(rec.advisors, AdvisorsMarker)
           /\ rec.graders = SubSeq(line, cut, Len(line))
           /\ rec.advisors \o rec.graders = line

\* C12: a line with both markers, examined while a room is current, is
\* split at the graders marker: advisors becomes the text before that
\* marker and holds the advisors marker, graders becomes the marker with
\* all the text of the line that follows it, and advisors followed by
\* graders is the whole line.
C12_SplitAccountsForLine == [][C12_Step]_vars

\* the outer scan is about to examine, with a room current, a line that
\* holds an advisors or graders marker and also an am/pm separator token
AtMarkerLineWithTimeSep ==
    /\ pc = "scan"
    /\ i < Len(lines)
    /\ current_room # None
    /\ lines[i + 1] \notin RoomHeaders
    /\ \/ Contains(lines[i + 1], AdvisorsMarker)
       \/ Contains(lines[i + 1], GradersMarker)
    /\ \/ Contains(lines[i + 1], "am " \o EnDash \o " ")
       \/ Contains(lines[i + 1], "pm " \o EnDash \o " ")

C13_HandledAsTime ==
    AtMarkerLineWithTimeSep =>
       LET old == rooms[current_room]
           new == rooms'[current_room]
       IN  /\ Len(new.schedule) = Len(old.schedule) + 1
           /\ new.schedule[Len(new.schedule)][1] = lines[i + 1]
           /\ (i + 1 < Len(lines) => (i + 1) \in consumed')
           /\ new.advisors = old.advisors
           /\ new.graders = old.graders

\* C13 as stated: with a room current, an advisors or graders line that also
\* holds "am ~ " or "pm ~ " is handled as a time-range line: a schedule
\* entry is appended, the next line is consumed as its presenter, and the
\* advisors and graders fields are not set.
C13_MarkerLineWithTimeSepIsTimeRange == [][C13_HandledAsTime]_vars

C13_HandledAsMarker ==
    AtMarkerLineWithTimeSep =>
       LET line == lines[i + 1]
           old  == rooms[current_room]
           new  == rooms'[current_room]
           adv  == Contains(line, AdvisorsMarker)
           gra  == Contains(line, GradersMarker)
       IN  /\ new.schedule = old.schedule
           /\ consumed' = consumed
           /\ i' = i + 1
           /\ current_room' = current_room
           /\ (adv /\ ~gra) => new.advisors = line /\ new.graders = old.graders
           /\ (gra /\ ~adv) => new.graders = line /\ new.advisors = old.advisors
           /\ (adv /\ gra) => /\ new.advisors = SubSeq(line, 1, Find(line, GradersMarker) - 1)
                              /\ SubSeq(new.graders, 1, Len(GradersMarker)) = GradersMarker

\* C13: with a room current, an advisors or graders line that also holds
\* "am ~ " or "pm ~ " is handled by its advisors/graders branch, which is
\* tested before the time-range branch: the field is set from the line, no
\* schedule entry is appended and the next line is not consumed.
C13_MarkerLineWithTimeSepSetsField == [][C13_HandledAsMarker]_vars

C13_Witness ==
    /\ pc = "returned"
    /\ lines = <<"101 - Sherrerd Hall", "ORFE Advisors: C 9:00 am ~ 9:15 am", "Bob">>
    /\ rooms["101"].advisors = "ORFE Advisors: C 9:00 am ~ 9:15 am"
    /\ rooms["101"].schedule = <<>>
    /\ examined = {0, 1, 2}
    /\ consumed = {}

\* the lines holding `marker` that the outer scan examined while room r was
\* current, since the last header of r
MarkerLinesOf(r, marker) ==
    {k \in examined :
        /\ lines[k + 1] \notin RoomHeaders
        /\ Contains(lines[k + 1], marker)
        /\ HeadersBefore(k) # {}
        /\ RoomAt(k) = r
        /\ \A h \in examined : lines[h + 1] = r \o " - Sherrerd Hall" => h < k}

\* the advisors field a single matching line leaves behind
AdvisorsFrom(line) ==
    IF Contains(line, GradersMarker)
    THEN SubSeq(line, 1, Find(line, GradersMarker) - 1)
    ELSE line

\* the graders field a single matching line leaves behind
GradersFrom(line) ==
    IF Contains(line, AdvisorsMarker)
    THEN GradersMarker \o Split(line, GradersMarker)[2]
    ELSE line

C14_LastWins ==
    pc = "returned" =>
       \A r \in DOMAIN rooms :
          LET A == MarkerLinesOf(r, AdvisorsMarker)
              G == MarkerLinesOf(r, GradersMarker)
          IN  /\ rooms[r].advisors =
                    IF A = {} THEN "" ELSE AdvisorsFrom(lines[Max(A) + 1])
              /\ rooms[r].graders =
                    IF G = {} THEN "" ELSE GradersFrom(lines[Max(G) + 1])

C14_Frame ==
    (pc = "scan" /\ i < Len(lines) /\ current_room # None
        /\ lines[i + 1] \notin RoomHeaders) =>
       LET line == lines[i + 1]
           old  == rooms[current_room]
           new  == rooms'[current_room]
           adv  == Contains(line, AdvisorsMarker)
           gra  == Contains(line, GradersMarker)
       IN  /\ (adv /\ ~gra) => new.graders = old.graders /\ new.schedule = old.schedule
           /\ (gra /\ ~adv) => new.advisors = old.advisors /\ new.schedule = old.schedule
           /\ (adv \/ gra) => \A r \in DOMAIN rooms : r # current_room => rooms'[r] = rooms[r]

\* C14: advisors and graders are last-write-wins: when the parse returns, a
\* room's advisors field comes from the last advisors-matching line examined
\* while the room was current since its most recent header and from no
\* earlier one, likewise graders, and a field without a matching line is "";
\* an advisors-only line leaves graders and the schedule as they were, a
\* graders-only line leaves advisors and the schedule as they were.
C14_FieldsLastWriteWins == [][C14_Frame]_vars /\ []C14_LastWins

C14_Witness ==
    /\ pc = "returned"
    /\ lines = <<"101 - Sherrerd Hall",
                 "ORFE Advisors: A PhD Candidate Graders: B",
                 "ORFE Advisors: C 9:00 am ~ 9:15 am",
                 "Bob">>
    /\ rooms["101"].advisors = "ORFE Advisors: C 9:00 am ~ 9:15 am"
    /\ rooms["101"].graders = "PhD Candidate Graders: B"
    /\ MarkerLinesOf("101", AdvisorsMarker) = {1, 2}
    /\ MarkerLinesOf("101", GradersMarker) = {1}

-----------------------------------------------------------------------------
(* The grid rendering of whatever the parser returned.                      *)

\* the run got a mapping from the parser, was asked for the grid and is over
GridRunOver ==
    /\ pc \in {"exited", "uncaught"}
    /\ args.grid
    /\ ~args.hash
    /\ exc \notin {MaintenanceMessage, FetchFailure}

\* C15: parsing followed by the grid rendering ends without error for every
\* mapping the parser returns, the empty mapping of an input without room
\* header included: the grid document is built with one column per room
\* after the time column, whatever the number of rooms.
C15_GridRendersEveryMapping ==
    GridRunOver =>
       /\ pc = "exited"
       /\ exc = None
       /\ exitStatus = 0
       /\ Written(GridName)
       /\ Len(files[GridName].columns) = Cardinality(DOMAIN rooms)

=============================================================================
